---- MODULE Spec2Model ----
(***************************************************************************)
(* Model of the IKEA catalog client (ikea_lib.py, class IkeaApiWrapper)    *)
(* and of its on-disk cache.  One action per public operation; an action   *)
(* is the whole call, with every upstream response and every file write    *)
(* it meets drawn nondeterministically.                                    *)
(*                                                                         *)
(* Strings the code inspects character by character (item numbers,         *)
(* queries) are sequences of one-character strings.  A Python dict is a    *)
(* function whose domain is its key set.                                   *)
(***************************************************************************)
EXTENDS Integers, Sequences, FiniteSets, TLC

VARIABLES
    cache,              \* ./cache/<itemNo>/<file>: the file's content, or Absent
    get_headers,        \* the dict object that is the default of _get's `headers`
    get_json_headers,   \* the dict object that is the default of _get_json's `headers`
    last                \* the most recent call: operation, arguments, event log, outcome

vars == <<cache, get_headers, get_json_headers, last>>

----------------------------------------------------------------------------
(* Bounds and inputs *)

\* longest item list of a search response
MaxItems == 2

NL == "\n"
Item1 == <<"1", "2", "3", "4", "5", "6", "7", "8">>
Item1F == <<"1", "2", "3", ".", "4", "5", "6", ".", "7", "8">>
FreeText == <<"s", "o", "f", "a">>
Item1NL == Item1 \o <<NL>>

\* item numbers callers pass and upstream returns (each is its own cache directory)
ItemNos == {Item1, Item1F}
\* search queries
Queries == {Item1F, FreeText}

\* the strings the item-number helpers are applied to: three digit groups with what may
\* stand before, between and after them
Leads == {<<>>, <<"x">>, <<NL>>}
FirstGroups == {<<"1", "2", "3">>, <<"1", "2">>, <<"1", "U+0663", "3">>}
FirstSeparators == {<<>>, <<".">>, <<"-">>}
SecondGroups == {<<"4", "5", "6">>, <<"4", "5", "6", "0">>}
SecondSeparators == {<<>>, <<".">>, <<".", ".">>}
ThirdGroups == {<<"7", "8">>, <<"7">>, <<>>}
Trails == {<<>>, <<NL>>, <<"x">>, <<NL, NL>>, <<"9">>}

Texts ==
    {lead \o g1 \o s1 \o g2 \o s2 \o g3 \o trail :
        lead \in Leads, g1 \in FirstGroups, s1 \in FirstSeparators, g2 \in SecondGroups,
        s2 \in SecondSeparators, g3 \in ThirdGroups, trail \in Trails}

----------------------------------------------------------------------------
(* Dicts *)

EmptyDict == [k \in {} |-> TRUE]

Merge(d, e) == [k \in (DOMAIN d) \cup (DOMAIN e) |-> IF k \in DOMAIN e THEN e[k] ELSE d[k]]

----------------------------------------------------------------------------
(* Module constants and URLs *)

CLIENT_ID == "4863e7d2-1428-4324-890b-ae5dede24fc6"
USER_AGENT == "Blender IKEA Browser ( https://github.com/shish/blender-ikea-browser/ )"

SearchHost == "sik.search.blue.cdtapps.com"
PipHost == "www.ikea.com"
WebApiHost == "web-api.ikea.com"

NoItem == <<>>

SearchUrl ==
    [host |-> SearchHost, path |-> "/{country}/{language}/search-result-page", item |-> NoItem]

PipUrl(itemNo) ==
    [host |-> PipHost, path |-> "/{country}/{language}/products/{itemNo[5:]}/{itemNo}.json",
     item |-> itemNo]

ExistsUrl(itemNo) ==
    [host |-> WebApiHost, path |-> "/{country}/{language}/rotera/data/exists/{itemNo}/",
     item |-> itemNo]

ModelUrl(itemNo) ==
    [host |-> WebApiHost, path |-> "/{country}/{language}/rotera/data/model/{itemNo}/",
     item |-> itemNo]

\* binary URLs: the thumbnail URLs callers pass and the modelUrl values upstream returns
CdnUrl == [host |-> "www.ikea.com", path |-> "/images/asset.bin", item |-> NoItem]
MirrorUrl == [host |-> "mirror.example", path |-> "/web-api.ikea.com/asset.bin", item |-> NoItem]
BinUrls == {CdnUrl, MirrorUrl}
NoUrl == [host |-> "", path |-> "", item |-> NoItem]

\* the paths of the model in which the text "web-api.ikea.com" occurs
PathsNamingWebApi == {MirrorUrl.path}

\* `"web-api.ikea.com" in url`: a substring test on the whole URL text
ContainsWebApi(url) == url.host = WebApiHost \/ url.path \in PathsNamingWebApi

----------------------------------------------------------------------------
(* Bodies, files and JSON *)

\* A body or a file content: fmt "raw" is JSON text as upstream sent it, "canon" is
\* JSON text as json.dumps writes it, "bytes" is anything that is not JSON.
Raw(v) == [fmt |-> "raw", val |-> v]
Bytes(b) == [fmt |-> "bytes", val |-> [bytes |-> b]]
Absent == [fmt |-> "absent", val |-> [absent |-> TRUE]]
Garbage == Bytes("<html>")

IsJson(text) == text.fmt \in {"raw", "canon"}
json_loads(text) == text.val
json_dumps(v) == [fmt |-> "canon", val |-> v]

Files == {"pip.json", "exists.json", "thumbnail.jpg", "model.glb"}

RequiredFields == {"itemNo", "mainImageUrl", "mainImageAlt", "pipUrl"}

FieldValue(f, itemNo) == IF f = "itemNo" THEN itemNo ELSE [field |-> f, of |-> itemNo]

Product(itemNo, missing) ==
    [f \in (RequiredFields \cup {"name"}) \ missing |-> FieldValue(f, itemNo)]

\* the candidates of a search response: complete ones, ones lacking one required field,
\* ones lacking the name, and one that has no "product" at all
Candidates ==
    {[product |-> Product(i, {})] : i \in ItemNos}
    \cup {[product |-> Product(Item1, {f})] : f \in RequiredFields \cup {"name"}}
    \cup {[product |-> Product(Item1, {"mainImageAlt", "name"})]}
    \cup {[sponsored |-> TRUE]}

RECURSIVE SeqsUpTo(_, _)
SeqsUpTo(S, n) ==
    IF n = 0 THEN {<<>>}
    ELSE LET shorter == SeqsUpTo(S, n - 1)
         IN shorter \cup {Append(s, x) : s \in shorter, x \in S}

Page(items) == [searchResultPage |-> [products |-> [main |-> [items |-> items]]]]

PipDocs == {[typeName |-> "sofa"]}

\* what upstream may answer with a 2xx status, by the kind of request
Bodies(kind) ==
    CASE kind = "search" ->
           {Raw(Page(items)) : items \in SeqsUpTo(Candidates, MaxItems)}
           \cup {Raw(EmptyDict), Garbage}
      [] kind = "pip" -> {Raw(d) : d \in PipDocs} \cup {Garbage}
      [] kind = "exists" ->
           {Raw([exists |-> TRUE]), Raw([exists |-> FALSE]), Raw(EmptyDict), Garbage}
      [] kind = "model_meta" ->
           {Raw([modelUrl |-> u]) : u \in BinUrls} \cup {Raw(EmptyDict), Garbage}
      [] OTHER -> {Bytes("blob")}

Statuses == {199, 200, 300, 404, 500}

\* an upstream answer: a response with a status, or no response at all
Responses(kind) ==
    {[got |-> TRUE, status |-> s, body |-> b] : s \in Statuses, b \in Bodies(kind)}
    \cup {[got |-> FALSE, status |-> 0, body |-> Absent]}

----------------------------------------------------------------------------
(* Calls: a context threaded through a call, and the outcomes of a step *)

NoExc == [type |-> "none", op |-> "none", about |-> NoItem, cause |-> "none"]
NoRet == [none |-> TRUE]

Exc(type, op, about, cause) == [type |-> type, op |-> op, about |-> about, cause |-> cause]

\* raise IkeaException(f"Error ... {about}: {e}")
Wrap(op, about, e) == Exc("IkeaException", op, about, e.cause)

Raise(ctx, e) == [ctx |-> ctx, exc |-> e, ret |-> NoRet]
Return(ctx, v) == [ctx |-> ctx, exc |-> NoExc, ret |-> v]

Raised(o) == o.exc # NoExc

\* statement sequencing: what follows runs only if what precedes did not raise
Then(outs, F(_)) == UNION {IF Raised(o) THEN {o} ELSE F(o) : o \in outs}

\* try: ... except Exception as e: raise IkeaException(...)
Try(outs, op, about) ==
    {IF Raised(o) THEN Raise(o.ctx, Wrap(op, about, o.exc)) ELSE o : o \in outs}

Start ==
    [cache |-> cache, get_headers |-> get_headers, get_json_headers |-> get_json_headers,
     log |-> <<>>]

----------------------------------------------------------------------------
(* The HTTP layer *)

ExtraHeaders ==
    [h \in {"X-Client-Id", "User-Agent"} |-> IF h = "X-Client-Id" THEN CLIENT_ID ELSE USER_AGENT]

\* the record of one GET in a call's log: what was sent, what came back (`read` is the
\* body if the code read it, line 58), and for which file of which item it was made
Request(url, params, headers, r, why) ==
    [ev |-> "request", url |-> url, params |-> params, headers |-> headers,
     got |-> r.got, status |-> r.status,
     read |-> IF r.got /\ r.status >= 200 /\ r.status < 300 THEN r.body ELSE Absent,
     why |-> why]

For(kind, itemNo) == [kind |-> kind, item |-> itemNo]

\* mutant: the upper end of the range is taken one too high
StatusIsError_above_300(status) == status < 200 \/ status > 300

\* response.status < 200 or response.status >= 300
StatusIsError(status) == status < 200 \/ status >= 300

\* _get(url, params=..., headers=...).  `defaults` names the dict object the call
\* receives as `headers`: no caller passes one of its own, so it is the default of
\* _get ("_get") or the default of _get_json, handed on by it ("_get_json").  The
\* update of line 40-41 is made in that object, before the try.
_get(ctx, url, params, defaults, why) ==
    LET given == IF defaults = "_get" THEN ctx.get_headers ELSE ctx.get_json_headers
        headers == IF ContainsWebApi(url) THEN Merge(given, ExtraHeaders) ELSE given
        c1 == IF defaults = "_get"
              THEN [ctx EXCEPT !.get_headers = headers]
              ELSE [ctx EXCEPT !.get_json_headers = headers]
    IN {LET c2 == [c1 EXCEPT !.log =
                      Append(@, Request(url, params, headers, r, why))]
        IN IF ~r.got THEN Raise(c2, Exc("IkeaException", "_get", url.item, "transport"))
           ELSE IF StatusIsError(r.status)
                THEN Raise(c2, Exc("IkeaException", "_get", url.item, "http_status"))
                ELSE Return(c2, [body |-> r.body])
        : r \in Responses(why.kind)}

\* _get_json: _get with _get_json's own `headers`, then json.loads of the body
_get_json(ctx, url, params, why) ==
    Then(_get(ctx, url, params, "_get_json", why),
         LAMBDA o: {IF IsJson(o.ret.body)
                    THEN Return(o.ctx, [json |-> json_loads(o.ret.body)])
                    ELSE Raise(o.ctx, Exc("JSONDecodeError", "_get_json", url.item, "json_decode"))})

----------------------------------------------------------------------------
(* The cache *)

FsResults == {"ok", "error"}

\* mutant: the file is written into the directory of every item
write_file_everywhere(ctx, itemNo, file, data) ==
    {IF fs = "ok"
     THEN Return([ctx EXCEPT !.cache = [i \in DOMAIN ctx.cache |-> [ctx.cache[i] EXCEPT ![file] = data]],
                             !.log = Append(@, [ev |-> "write", item |-> itemNo, file |-> file])],
                 NoRet)
     ELSE Raise(ctx, Exc("OSError", "write", itemNo, "os_error"))
     : fs \in FsResults}

\* cache_path.parent.mkdir(parents=True, exist_ok=True); cache_path.write_*(data)
write_file(ctx, itemNo, file, data) ==
    {IF fs = "ok"
     THEN Return([ctx EXCEPT !.cache[itemNo][file] = data,
                             !.log = Append(@, [ev |-> "write", item |-> itemNo, file |-> file])],
                 NoRet)
     ELSE Raise(ctx, Exc("OSError", "write", itemNo, "os_error"))
     : fs \in FsResults}

PathOf(itemNo, file) == [path |-> <<"cache", itemNo, file>>]

----------------------------------------------------------------------------
(* The operations *)

\* mutant: a download that fails is tried once more
get_pip_retry(ctx, itemNo) ==
    LET download(c) ==
          Then(_get_json(c, PipUrl(itemNo), EmptyDict, For("pip", itemNo)),
               LAMBDA o: write_file(o.ctx, itemNo, "pip.json", json_dumps(o.ret.json)))
        fetched ==
          IF ctx.cache[itemNo]["pip.json"] # Absent THEN {Return(ctx, NoRet)}
          ELSE Try(UNION {IF Raised(o) THEN download(o.ctx) ELSE {o} : o \in download(ctx)},
                   "get_pip", itemNo)
    IN Then(fetched,
            LAMBDA o: LET text == o.ctx.cache[itemNo]["pip.json"]
                      IN {IF IsJson(text) THEN Return(o.ctx, [json |-> json_loads(text)])
                          ELSE Raise(o.ctx, Exc("JSONDecodeError", "get_pip", itemNo, "json_decode"))})

get_pip(ctx, itemNo) ==
    LET fetched ==
          IF ctx.cache[itemNo]["pip.json"] # Absent THEN {Return(ctx, NoRet)}
          ELSE Try(Then(_get_json(ctx, PipUrl(itemNo), EmptyDict, For("pip", itemNo)),
                        LAMBDA o: write_file(o.ctx, itemNo, "pip.json", json_dumps(o.ret.json))),
                   "get_pip", itemNo)
    IN Then(fetched,
            LAMBDA o: LET text == o.ctx.cache[itemNo]["pip.json"]
                      IN {IF IsJson(text) THEN Return(o.ctx, [json |-> json_loads(text)])
                          ELSE Raise(o.ctx, Exc("JSONDecodeError", "get_pip", itemNo, "json_decode"))})

\* mutant: the thumbnail is downloaded whether or not it is cached
get_thumbnail_refetch(ctx, itemNo, url) ==
    Then(Try(Then(_get(ctx, url, EmptyDict, "_get", For("thumbnail", itemNo)),
                  LAMBDA o: write_file(o.ctx, itemNo, "thumbnail.jpg", o.ret.body)),
             "get_thumbnail", itemNo),
         LAMBDA o: {Return(o.ctx, PathOf(itemNo, "thumbnail.jpg"))})

get_thumbnail(ctx, itemNo, url) ==
    LET fetched ==
          IF ctx.cache[itemNo]["thumbnail.jpg"] # Absent THEN {Return(ctx, NoRet)}
          ELSE Try(Then(_get(ctx, url, EmptyDict, "_get", For("thumbnail", itemNo)),
                        LAMBDA o: write_file(o.ctx, itemNo, "thumbnail.jpg", o.ret.body)),
                   "get_thumbnail", itemNo)
    IN Then(fetched, LAMBDA o: {Return(o.ctx, PathOf(itemNo, "thumbnail.jpg"))})

\* mutant: the existence flag is fetched again on every call
get_exists_refresh(ctx, itemNo) ==
    Then(Try(Then(_get(ctx, ExistsUrl(itemNo), EmptyDict, "_get", For("exists", itemNo)),
                  LAMBDA o: write_file(o.ctx, itemNo, "exists.json", o.ret.body)),
             "get_exists", itemNo),
         LAMBDA o: LET text == o.ctx.cache[itemNo]["exists.json"]
                   IN {IF ~IsJson(text)
                       THEN Raise(o.ctx, Exc("JSONDecodeError", "get_exists", itemNo, "json_decode"))
                       ELSE IF "exists" \notin DOMAIN json_loads(text)
                            THEN Raise(o.ctx, Exc("KeyError", "get_exists", itemNo, "key_error"))
                            ELSE Return(o.ctx, [bool |-> json_loads(text).exists])})

get_exists(ctx, itemNo) ==
    LET fetched ==
          IF ctx.cache[itemNo]["exists.json"] # Absent THEN {Return(ctx, NoRet)}
          ELSE Try(Then(_get(ctx, ExistsUrl(itemNo), EmptyDict, "_get", For("exists", itemNo)),
                        LAMBDA o: write_file(o.ctx, itemNo, "exists.json", o.ret.body)),
                   "get_exists", itemNo)
    IN Then(fetched,
            LAMBDA o: LET text == o.ctx.cache[itemNo]["exists.json"]
                      IN {IF ~IsJson(text)
                          THEN Raise(o.ctx, Exc("JSONDecodeError", "get_exists", itemNo, "json_decode"))
                          ELSE IF "exists" \notin DOMAIN json_loads(text)
                               THEN Raise(o.ctx, Exc("KeyError", "get_exists", itemNo, "key_error"))
                               ELSE Return(o.ctx, [bool |-> json_loads(text).exists])})

\* lines 218-224: the metadata request, the binary request, the write
download_model(ctx, itemNo) ==
    Then(_get_json(ctx, ModelUrl(itemNo), EmptyDict, For("model_meta", itemNo)),
         LAMBDA m:
           IF "modelUrl" \notin DOMAIN m.ret.json
           THEN {Raise(m.ctx, Exc("KeyError", "get_model", itemNo, "key_error"))}
           ELSE Then(_get(m.ctx, m.ret.json.modelUrl, EmptyDict, "_get", For("model_bin", itemNo)),
                     LAMBDA d: write_file(d.ctx, itemNo, "model.glb", d.ret.body)))

\* mutant: the result of get_exists is not looked at
get_model_unchecked(ctx, itemNo) ==
    LET fetched ==
          IF ctx.cache[itemNo]["model.glb"] # Absent THEN {Return(ctx, NoRet)}
          ELSE Try(Then(get_exists(ctx, itemNo), LAMBDA e: download_model(e.ctx, itemNo)),
                   "get_model", itemNo)
    IN Then(fetched, LAMBDA o: {Return(o.ctx, PathOf(itemNo, "model.glb"))})

\* mutant: the test of the existence flag is inverted
get_model_inverted(ctx, itemNo) ==
    LET fetched ==
          IF ctx.cache[itemNo]["model.glb"] # Absent THEN {Return(ctx, NoRet)}
          ELSE Try(Then(get_exists(ctx, itemNo),
                        LAMBDA e:
                          IF e.ret.bool
                          THEN {Raise(e.ctx, Exc("IkeaException", "get_model", itemNo, "no_model"))}
                          ELSE download_model(e.ctx, itemNo)),
                   "get_model", itemNo)
    IN Then(fetched, LAMBDA o: {Return(o.ctx, PathOf(itemNo, "model.glb"))})

\* mutant: the model is downloaded and stored before the existence flag is looked at
get_model_download_first(ctx, itemNo) ==
    LET fetched ==
          IF ctx.cache[itemNo]["model.glb"] # Absent THEN {Return(ctx, NoRet)}
          ELSE Try(Then(download_model(ctx, itemNo),
                        LAMBDA d:
                          Then(get_exists(d.ctx, itemNo),
                               LAMBDA e:
                                 {IF ~e.ret.bool
                                  THEN Raise(e.ctx, Exc("IkeaException", "get_model", itemNo, "no_model"))
                                  ELSE Return(e.ctx, NoRet)})),
                   "get_model", itemNo)
    IN Then(fetched, LAMBDA o: {Return(o.ctx, PathOf(itemNo, "model.glb"))})

get_model(ctx, itemNo) ==
    LET fetched ==
          IF ctx.cache[itemNo]["model.glb"] # Absent THEN {Return(ctx, NoRet)}
          ELSE Try(Then(get_exists(ctx, itemNo),
                        LAMBDA e:
                          IF ~e.ret.bool
                          THEN {Raise(e.ctx, Exc("IkeaException", "get_model", itemNo, "no_model"))}
                          ELSE download_model(e.ctx, itemNo)),
                   "get_model", itemNo)
    IN Then(fetched, LAMBDA o: {Return(o.ctx, PathOf(itemNo, "model.glb"))})

----------------------------------------------------------------------------
(* Item numbers *)

AsciiDigits == {"0", "1", "2", "3", "4", "5", "6", "7", "8", "9"}
\* \d of a str pattern also matches the decimal digits outside ASCII
OtherDigits == {"U+0663"}

DigitsAt(s, pos, n) ==
    pos + n - 1 <= Len(s) /\ \A k \in pos..(pos + n - 1) : s[k] \in AsciiDigits \cup OtherDigits

\* \.? at pos: the positions the match may go on from
AfterOptionalDot(s, pos) == {pos} \cup (IF pos <= Len(s) /\ s[pos] = "." THEN {pos + 1} ELSE {})

\* $ at pos: the end of the string, or just before a newline that ends it
AtDollar(s, pos) == pos = Len(s) + 1 \/ (pos = Len(s) /\ s[pos] = NL)

\* re.match(r"^\d{3}\.?\d{3}\.?\d{2}$", itemNo) is not None
is_item_no(itemNo) ==
    /\ DigitsAt(itemNo, 1, 3)
    /\ \E p \in AfterOptionalDot(itemNo, 4) :
         /\ DigitsAt(itemNo, p, 3)
         /\ \E q \in AfterOptionalDot(itemNo, p + 3) :
              DigitsAt(itemNo, q, 2) /\ AtDollar(itemNo, q + 2)

\* re.sub(r"[^0-9]", "", itemNo)
compact_item_no(itemNo) == SelectSeq(itemNo, LAMBDA c : c \in AsciiDigits)

\* s[a:b] for 0 <= a <= b: the characters at the 0-based places a..b-1 that exist
Slice(s, a, b) ==
    LET hi == IF b < Len(s) THEN b ELSE Len(s)
        lo == IF a < hi THEN a ELSE hi
    IN [k \in 1..(hi - lo) |-> s[lo + k]]

format_item_no(itemNo) ==
    LET compact == compact_item_no(itemNo)
    IN Slice(compact, 0, 3) \o <<".">> \o Slice(compact, 3, 6) \o <<".">> \o Slice(compact, 6, 8)

----------------------------------------------------------------------------
(* search *)

\* mutant: every query is sent as a free-text query
search_params_free_text(query) ==
    [k \in {"types", "q", "size", "c", "v", "autocorrect", "subcategories-style"} |->
       CASE k = "types" -> <<"PRODUCT">>
         [] k = "q" -> query
         [] k = "size" -> <<"24">>
         [] k = "c" -> <<"sr">>
         [] k = "v" -> <<"20210322">>
         [] k = "autocorrect" -> <<"true">>
         [] OTHER -> <<"tree-navigation">>]

search_params(query) ==
    LET params == [k \in {"types", "q", "size", "c", "v"} |->
                     CASE k = "types" -> <<"PRODUCT">>
                       [] k = "q" -> query
                       [] k = "size" -> <<"24">>
                       [] k = "c" -> <<"sr">>
                       [] OTHER -> <<"20210322">>]
    IN IF is_item_no(query)
       THEN [params EXCEPT !["size"] = <<"1">>]
       ELSE Merge(params, [k \in {"autocorrect", "subcategories-style"} |->
                             IF k = "autocorrect" THEN <<"true">> ELSE <<"tree-navigation">>])

\* search_results["searchResultPage"]["products"]["main"]["items"] can be evaluated
HasItems(doc) ==
    /\ "searchResultPage" \in DOMAIN doc
    /\ "products" \in DOMAIN doc.searchResultPage
    /\ "main" \in DOMAIN doc.searchResultPage.products
    /\ "items" \in DOMAIN doc.searchResultPage.products.main

ResultItem(p) == [f \in RequiredFields \cup {"name"} |-> p[f]]

\* mutant: a field-complete candidate is kept whatever get_exists returns
search_item_unchecked(ctx, i) ==
    IF "product" \notin DOMAIN i
    THEN {Raise(ctx, Exc("KeyError", "search", NoItem, "key_error"))}
    ELSE LET p == i.product
         IN IF RequiredFields \ DOMAIN p # {}
            THEN {IF "name" \in DOMAIN p THEN Return(ctx, [keep |-> FALSE])
                  ELSE Raise(ctx, Exc("KeyError", "search", NoItem, "key_error"))}
            ELSE Then(get_exists(ctx, p.itemNo),
                      LAMBDA e:
                        {IF "name" \notin DOMAIN p
                         THEN Raise(e.ctx, Exc("KeyError", "search", NoItem, "key_error"))
                         ELSE Return(e.ctx, [keep |-> TRUE, item |-> ResultItem(p)])})

\* mutant: a candidate whose existence check raises is dropped like one without a model
search_item_tolerant(ctx, i) ==
    IF "product" \notin DOMAIN i
    THEN {Raise(ctx, Exc("KeyError", "search", NoItem, "key_error"))}
    ELSE LET p == i.product
         IN IF RequiredFields \ DOMAIN p # {}
            THEN {IF "name" \in DOMAIN p THEN Return(ctx, [keep |-> FALSE])
                  ELSE Raise(ctx, Exc("KeyError", "search", NoItem, "key_error"))}
            ELSE {IF Raised(e) THEN Return(e.ctx, [keep |-> FALSE])
                  ELSE IF "name" \notin DOMAIN p
                       THEN Raise(e.ctx, Exc("KeyError", "search", NoItem, "key_error"))
                       ELSE IF ~e.ret.bool
                            THEN Return(e.ctx, [keep |-> FALSE])
                            ELSE Return(e.ctx, [keep |-> TRUE, item |-> ResultItem(p)])
                  : e \in get_exists(ctx, p.itemNo)}

\* one round of the loop of lines 114-139: the outcome returns [keep |-> FALSE] for a
\* dropped candidate and [keep |-> TRUE, item |-> ...] for one appended to the results
search_item(ctx, i) ==
    IF "product" \notin DOMAIN i
    THEN {Raise(ctx, Exc("KeyError", "search", NoItem, "key_error"))}
    ELSE LET p == i.product
             nameless == Raise(ctx, Exc("KeyError", "search", NoItem, "key_error"))
         IN IF RequiredFields \ DOMAIN p # {}
            THEN {IF "name" \in DOMAIN p THEN Return(ctx, [keep |-> FALSE]) ELSE nameless}
            ELSE Then(get_exists(ctx, p.itemNo),
                      LAMBDA e:
                        {IF "name" \notin DOMAIN p
                         THEN Raise(e.ctx, Exc("KeyError", "search", NoItem, "key_error"))
                         ELSE IF ~e.ret.bool
                              THEN Return(e.ctx, [keep |-> FALSE])
                              ELSE Return(e.ctx, [keep |-> TRUE, item |-> ResultItem(p)])})

RECURSIVE search_loop(_, _, _)
search_loop(ctx, items, results) ==
    IF items = <<>> THEN {Return(ctx, [list |-> results])}
    ELSE Then(search_item(ctx, Head(items)),
              LAMBDA o: search_loop(o.ctx, Tail(items),
                                    IF o.ret.keep THEN Append(results, o.ret.item) ELSE results))

search(ctx, query) ==
    Then(Try(_get_json(ctx, SearchUrl, search_params(query), For("search", NoItem)), "search", query),
         LAMBDA o:
           IF ~HasItems(o.ret.json)
           THEN {Raise(o.ctx, Exc("KeyError", "search", query, "key_error"))}
           ELSE search_loop(o.ctx, o.ret.json.searchResultPage.products.main.items, <<>>))

----------------------------------------------------------------------------
(* The state machine *)

NoCall == [op |-> "none", arg |-> NoItem, url |-> NoUrl, log |-> <<>>, exc |-> NoExc, ret |-> NoRet]

\* operations run one at a time, each to completion before the next begins
Idle == last = NoCall

Init ==
    /\ cache = [i \in ItemNos |-> [f \in Files |-> Absent]]
    /\ get_headers = EmptyDict
    /\ get_json_headers = EmptyDict
    /\ last = NoCall

\* a call ends: its effects on the cache and on the default dicts stay, and `last`
\* records the call
Finish(op, arg, url, o) ==
    /\ cache' = o.ctx.cache
    /\ get_headers' = o.ctx.get_headers
    /\ get_json_headers' = o.ctx.get_json_headers
    /\ last' = [op |-> op, arg |-> arg, url |-> url, log |-> o.ctx.log,
                exc |-> o.exc, ret |-> o.ret]

Search ==
    /\ Idle
    /\ \E query \in Queries :
         \E o \in search(Start, query) : Finish("search", query, NoUrl, o)

GetPip ==
    /\ Idle
    /\ \E itemNo \in ItemNos :
         \E o \in get_pip(Start, itemNo) : Finish("get_pip", itemNo, NoUrl, o)

GetThumbnail ==
    /\ Idle
    /\ \E itemNo \in ItemNos, url \in BinUrls :
         \E o \in get_thumbnail(Start, itemNo, url) : Finish("get_thumbnail", itemNo, url, o)

GetExists ==
    /\ Idle
    /\ \E itemNo \in ItemNos :
         \E o \in get_exists(Start, itemNo) : Finish("get_exists", itemNo, NoUrl, o)

GetModel ==
    /\ Idle
    /\ \E itemNo \in ItemNos :
         \E o \in get_model(Start, itemNo) : Finish("get_model", itemNo, NoUrl, o)

\* the caller has the call's result or exception, and may call again
ReturnToCaller ==
    /\ ~Idle
    /\ last' = NoCall
    /\ UNCHANGED <<cache, get_headers, get_json_headers>>

Next == Search \/ GetPip \/ GetThumbnail \/ GetExists \/ GetModel \/ ReturnToCaller

Spec == Init /\ [][Next]_vars

----------------------------------------------------------------------------
(* The item-number helpers as operations of their own *)

Helper(op, arg, ret) == [NoCall EXCEPT !.op = op, !.arg = arg, !.ret = ret]

IsItemNo ==
    /\ Idle
    /\ \E itemNo \in Texts : last' = Helper("is_item_no", itemNo, [bool |-> is_item_no(itemNo)])
    /\ UNCHANGED <<cache, get_headers, get_json_headers>>

CompactItemNo ==
    /\ Idle
    /\ \E itemNo \in Texts :
         last' = Helper("compact_item_no", itemNo, [text |-> compact_item_no(itemNo)])
    /\ UNCHANGED <<cache, get_headers, get_json_headers>>

FormatItemNo ==
    /\ Idle
    /\ \E itemNo \in Texts :
         last' = Helper("format_item_no", itemNo, [text |-> format_item_no(itemNo)])
    /\ UNCHANGED <<cache, get_headers, get_json_headers>>

NextItemNo == IsItemNo \/ CompactItemNo \/ FormatItemNo \/ ReturnToCaller

SpecItemNo == Init /\ [][NextItemNo]_vars

----------------------------------------------------------------------------
(* Reading a call's record *)

Requests(log) == SelectSeq(log, LAMBDA e : e.ev = "request")
Writes(log) == SelectSeq(log, LAMBDA e : e.ev = "write")

Range(seq) == {seq[k] : k \in 1..Len(seq)}

CacheOps == {"get_pip", "get_exists", "get_model", "get_thumbnail"}

\* a response arrived and its status is not one of 200..299
BadStatus(e) == e.got /\ e.status \notin 200..299

\* exists.json of the item is there, parses, and has the field
ExistsKnown(itemNo) ==
    LET text == cache[itemNo]["exists.json"]
    IN text.fmt \in {"raw", "canon"} /\ "exists" \in DOMAIN text.val

ExistsIs(itemNo, b) == ExistsKnown(itemNo) /\ cache[itemNo]["exists.json"].val.exists = b

\* the outcomes of making the call recorded in `last` once more, from the current state
Again ==
    CASE last.op = "get_pip" -> get_pip(Start, last.arg)
      [] last.op = "get_exists" -> get_exists(Start, last.arg)
      [] last.op = "get_model" -> get_model(Start, last.arg)
      [] last.op = "get_thumbnail" -> UNION {get_thumbnail(Start, last.arg, u) : u \in BinUrls}
      [] OTHER -> {}

----------------------------------------------------------------------------
(* C1 *)

\* C1 (as stated): a cache operation called twice in succession for the same item
\* issues no request in the second call, and both calls return the same content.
C1_TwiceAsStated ==
    last.op \in CacheOps =>
        \A o \in Again : /\ Requests(o.ctx.log) = <<>>
                         /\ ~Raised(last) => (~Raised(o) /\ o.ret = last.ret)

\* C1 (amended): if the first of two successive calls of a cache operation for the same
\* item returns normally, the second issues no request, writes nothing, leaves the
\* cache as it is and returns the same content.
C1_SecondCallFromCache ==
    (last.op \in CacheOps /\ ~Raised(last)) =>
        \A o \in Again : /\ o.ctx.log = <<>>
                         /\ o.ctx.cache = cache
                         /\ ~Raised(o)
                         /\ o.ret = last.ret

\* a get_model that went through all three requests and returned
C1_Witness ==
    /\ last.op = "get_model" /\ ~Raised(last)
    /\ Len(Requests(last.log)) = 3
    /\ Again # {}

----------------------------------------------------------------------------
(* C2 *)

\* C2: a request carries X-Client-Id or User-Agent only if its host is the web-API host.
C2_ExtraHeadersOnlyToWebApi ==
    \A e \in Range(Requests(last.log)) :
        (DOMAIN e.headers) \cap (DOMAIN ExtraHeaders) # {} => e.url.host = WebApiHost

----------------------------------------------------------------------------
(* C3 *)

\* C3: whatever makes a public operation fail, the caller gets an IkeaException.
C3_OnlyClientErrors == Raised(last) => last.exc.type = "IkeaException"

----------------------------------------------------------------------------
(* C4 *)

\* get_model was called for an item whose existence flag reads false
ModelRefused == last.op = "get_model" /\ ExistsIs(last.arg, FALSE)

NoModelTraffic ==
    \A e \in Range(Requests(last.log)) : e.why.kind \notin {"model_meta", "model_bin"}

\* C4 (as stated): when get_exists reports false, get_model raises a client error,
\* requests neither the model metadata nor the binary, and writes no cache file.
C4_AsStated ==
    ModelRefused =>
        /\ last.exc.type = "IkeaException"
        /\ NoModelTraffic
        /\ Writes(last.log) = <<>>

\* C4 (amended): when get_exists reports false, get_model raises a client error,
\* requests neither the model metadata nor the binary, and writes no model.glb; the
\* one file the call may write is the item's exists.json, when it was not cached.
C4_RefusedModelNotDownloaded ==
    ModelRefused =>
        /\ last.exc = Exc("IkeaException", "get_model", last.arg, "no_model")
        /\ NoModelTraffic
        /\ cache[last.arg]["model.glb"] = Absent
        /\ \A w \in Range(Writes(last.log)) : w.item = last.arg /\ w.file = "exists.json"

\* the existence flag was fetched in this very call, and read false
C4_Witness ==
    /\ ModelRefused
    /\ Len(Requests(last.log)) = 1
    /\ Len(Writes(last.log)) = 1

----------------------------------------------------------------------------
(* C5 *)

FileOf(kind) ==
    CASE kind = "pip" -> "pip.json"
      [] kind = "exists" -> "exists.json"
      [] kind = "thumbnail" -> "thumbnail.jpg"
      [] OTHER -> "model.glb"

\* C5 (as stated): a call that receives a response with a status outside [200, 300)
\* raises a client error and leaves the cache as it was before the call.
C5_AsStated ==
    [][(\E e \in Range(Requests(last'.log)) : BadStatus(e)) =>
           (last'.exc.type = "IkeaException" /\ cache' = cache)]_vars

\* C5 (amended): a response with a status outside [200, 300) ends the call with a
\* client error: the request is the last thing the call does, nothing is written from
\* it, and the file it was made for stays absent.  What a failing call may have written
\* before are exists.json files, from the existence requests of a get_model or a search
\* that succeeded earlier in the call.
C5_FailedResponseWritesNothing ==
    \A k \in 1..Len(last.log) :
        (last.log[k].ev = "request" /\ BadStatus(last.log[k])) =>
            /\ last.exc.type = "IkeaException"
            /\ k = Len(last.log)
            /\ last.log[k].why.kind # "search" =>
                   cache[last.log[k].why.item][FileOf(last.log[k].why.kind)] = Absent
            /\ \A w \in Range(Writes(last.log)) :
                   w.file = "exists.json" /\ last.op \in {"get_model", "search"}

\* get_model stored the existence flag, then the metadata request was answered 404
C5_Witness ==
    /\ last.op = "get_model"
    /\ Len(last.log) = 3
    /\ last.log[2].ev = "write"
    /\ last.log[3].ev = "request" /\ last.log[3].got /\ last.log[3].status = 404

----------------------------------------------------------------------------
(* The response a search call was served *)

Served == Requests(last.log)[1].read

\* the search request was answered 2xx with a JSON document that has the item list
WellFormedPage ==
    /\ last.op = "search"
    /\ Served.fmt = "raw"
    /\ "searchResultPage" \in DOMAIN Served.val

Items == Served.val.searchResultPage.products.main.items

HasProduct(c) == "product" \in DOMAIN c
Complete(c) == HasProduct(c) /\ {"itemNo", "mainImageUrl", "mainImageAlt", "pipUrl"} \subseteq DOMAIN c.product
Named(c) == HasProduct(c) /\ "name" \in DOMAIN c.product

----------------------------------------------------------------------------
(* C6 *)

\* C6: a candidate that lacks a required field is dropped and search does not raise;
\* on a page of nothing but such candidates, search makes no existence check and
\* returns the empty sequence.
C6_MissingFieldIsDropped ==
    (WellFormedPage /\ \A k \in 1..Len(Items) : HasProduct(Items[k]) /\ ~Complete(Items[k])) =>
        /\ ~Raised(last)
        /\ last.ret = [list |-> <<>>]
        /\ Len(Requests(last.log)) = 1

----------------------------------------------------------------------------
(* C7 *)

Expected(items) ==
    LET kept == SelectSeq(items, LAMBDA c : Complete(c) /\ ExistsIs(c.product.itemNo, TRUE))
    IN [k \in 1..Len(kept) |->
           [f \in {"itemNo", "name", "mainImageUrl", "mainImageAlt", "pipUrl"} |-> kept[k].product[f]]]

\* C7: when search returns, it returns, in upstream order, exactly the candidates that
\* have all required fields and whose model exists.
C7_ResultIsFilteredSubsequence ==
    (last.op = "search" /\ ~Raised(last)) =>
        /\ WellFormedPage
        /\ last.ret = [list |-> Expected(Items)]

\* two field-complete candidates, one kept and one dropped because it has no model
C7_Witness ==
    /\ last.op = "search" /\ ~Raised(last)
    /\ Len(Items) = 2 /\ Complete(Items[1]) /\ Complete(Items[2])
    /\ Len(last.ret.list) = 1
    /\ last.ret.list[1].itemNo = Items[2].product.itemNo

----------------------------------------------------------------------------
(* C8 *)

\* processing the candidate raises nothing: it is dropped for a missing field, or its
\* existence flag can be read
Harmless(c) == Named(c) /\ (~Complete(c) \/ ExistsKnown(c.product.itemNo))

\* C8: search drops a candidate only for a missing field or a missing model.  When the
\* existence check of a candidate fails, its exception leaves search as it is and no
\* result is returned.
C8_OtherFailuresPropagate ==
    WellFormedPage =>
        /\ ~Raised(last) =>
               \A k \in 1..Len(Items) :
                   \/ ~Complete(Items[k])
                   \/ ExistsIs(Items[k].product.itemNo, FALSE)
                   \/ ExistsIs(Items[k].product.itemNo, TRUE)
        /\ \A k \in 1..Len(Items) :
               ( /\ \A j \in 1..(k - 1) : Harmless(Items[j])
                 /\ Complete(Items[k])
                 /\ ~ExistsKnown(Items[k].product.itemNo) ) =>
                   /\ last.exc.op = "get_exists"
                   /\ last.exc.about = Items[k].product.itemNo
                   /\ last.ret = NoRet

\* the first candidate was checked and kept, the existence check of the second failed
C8_Witness ==
    /\ WellFormedPage
    /\ Len(Items) = 2
    /\ Len(Requests(last.log)) = 3
    /\ last.exc.op = "get_exists"
    /\ ExistsIs(Items[1].product.itemNo, TRUE)

----------------------------------------------------------------------------
(* C9 *)

\* C9: search makes exactly one request to the search endpoint, with types, q and c,
\* and with size=1 and no autocorrect or subcategories-style for an item number,
\* size=24, autocorrect=true and subcategories-style=tree-navigation otherwise.
C9_SearchRequest ==
    last.op = "search" =>
        LET rs == Requests(last.log)
            p == rs[1].params
        IN /\ Len(rs) >= 1
           /\ rs[1].url = SearchUrl
           /\ \A k \in 2..Len(rs) : rs[k].url.host # SearchHost
           /\ p["types"] = <<"PRODUCT">> /\ p["q"] = last.arg /\ p["c"] = <<"sr">>
           /\ IF is_item_no(last.arg)
              THEN /\ p["size"] = <<"1">>
                   /\ "autocorrect" \notin DOMAIN p
                   /\ "subcategories-style" \notin DOMAIN p
              ELSE /\ p["size"] = <<"24">>
                   /\ "autocorrect" \in DOMAIN p /\ p["autocorrect"] = <<"true">>
                   /\ "subcategories-style" \in DOMAIN p
                   /\ p["subcategories-style"] = <<"tree-navigation">>

\* a search for an item number that went on to an existence check
C9_Witness ==
    /\ last.op = "search" /\ last.arg = Item1F
    /\ Len(Requests(last.log)) = 2

----------------------------------------------------------------------------
(* C10 *)

KindsOf(file) ==
    CASE file = "pip.json" -> {"pip"}
      [] file = "exists.json" -> {"exists"}
      [] file = "thumbnail.jpg" -> {"thumbnail"}
      [] OTHER -> {"model_meta", "model_bin"}

\* C10: a cache file that exists is never rewritten or deleted, and no call makes a
\* request for a file that exists.
C10_CachePermanent ==
    [][\A i \in ItemNos, f \in Files :
           cache[i][f] # Absent =>
               /\ cache'[i][f] = cache[i][f]
               /\ \A e \in Range(Requests(last'.log)) :
                      ~(e.why.item = i /\ e.why.kind \in KindsOf(f))]_vars

\* a thumbnail served from the cache, whatever URL the caller passed
C10_Witness ==
    /\ last.op = "get_thumbnail" /\ last.url = MirrorUrl
    /\ ~Raised(last) /\ last.log = <<>>
    /\ cache[last.arg]["thumbnail.jpg"] # Absent

----------------------------------------------------------------------------
(* C11 *)

\* what an event of a call's log is: the kind of a request, the file of a write
StepOf(e) == IF e.ev = "request" THEN e.why.kind ELSE e.file

StepsOf(log) == [k \in 1..Len(log) |-> StepOf(log[k])]

IsPrefix(s, t) == Len(s) <= Len(t) /\ \A k \in 1..Len(s) : s[k] = t[k]

\* a request that was answered 2xx and whose body was read, or a write that was made
Succeeded(e) == e.ev = "write" \/ e.read # Absent

ModelStepsOnMiss == <<"exists", "exists.json", "model_meta", "model_bin", "model.glb">>
ModelStepsExistsCached == <<"model_meta", "model_bin", "model.glb">>

\* get_model did not find model.glb in the cache
ModelMiss == last.op = "get_model" /\ (last.log # <<>> \/ Raised(last))

C11_WitnessWriteFailed ==
    /\ ModelMiss /\ Raised(last)
    /\ Len(last.log) > 0 /\ StepOf(last.log[Len(last.log)]) = "model_bin"
    /\ Succeeded(last.log[Len(last.log)])

----------------------------------------------------------------------------
(* C12 *)

Operations == CacheOps \cup {"search"}

\* the most requests a call of the operation makes
MostRequests ==
    CASE last.op \in {"get_pip", "get_exists", "get_thumbnail"} -> 1
      [] last.op = "get_model" -> 3
      [] last.op = "search" /\ WellFormedPage ->
           1 + Cardinality({k \in 1..Len(Items) : Complete(Items[k])})
      [] OTHER -> 1

\* C12: no retry.  Within one call no URL is requested twice, a request that fails (no
\* response, or a status outside 200..299) is the last thing the call does and the call
\* raises, and a call makes no more requests than: one for get_pip, get_exists and
\* get_thumbnail, three for get_model, one search request and one existence request
\* per field-complete candidate for search.
C12_NoRetry ==
    last.op \in Operations =>
        LET rs == Requests(last.log)
        IN /\ \A j, k \in 1..Len(rs) : j # k => rs[j].url # rs[k].url
           /\ \A k \in 1..Len(last.log) :
                  (last.log[k].ev = "request" /\ ~Succeeded(last.log[k])) =>
                      (k = Len(last.log) /\ Raised(last))
           /\ Len(rs) <= MostRequests
           /\ last.op = "search" =>
                  /\ Len(rs) >= 1 /\ rs[1].why.kind = "search"
                  /\ \A k \in 2..Len(rs) :
                         /\ rs[k].why.kind = "exists"
                         /\ \E n \in 1..Len(Items) :
                                Complete(Items[n]) /\ Items[n].product.itemNo = rs[k].why.item

\* search met the same field-complete candidate twice, and asked upstream about it once
C12_Witness ==
    /\ WellFormedPage /\ ~Raised(last)
    /\ Len(Items) = 2 /\ Items[1] = Items[2] /\ Complete(Items[1])
    /\ Len(Requests(last.log)) = 2

\* get_model made its three requests, and the third failed
C12_WitnessThirdFails ==
    /\ last.op = "get_model" /\ Raised(last)
    /\ Len(Requests(last.log)) = 3
    /\ ~Succeeded(last.log[Len(last.log)])

----------------------------------------------------------------------------
(* C13 *)

\* the outcomes of making the call recorded in `last` once more for another spelling
\* of the item number, from the current state
AgainAs(itemNo) ==
    CASE last.op = "get_pip" -> get_pip(Start, itemNo)
      [] last.op = "get_exists" -> get_exists(Start, itemNo)
      [] last.op = "get_model" -> get_model(Start, itemNo)
      [] last.op = "get_thumbnail" -> get_thumbnail(Start, itemNo, last.url)
      [] OTHER -> {}

\* C13: the compact and the formatted form of an item number address the same cache
\* directory: once a cache operation has returned for one form, the same operation
\* for the other form is served from the cache, without a request.
C13_FormsShareCacheEntry ==
    (last.op \in CacheOps /\ ~Raised(last) /\ is_item_no(last.arg)) =>
        \A other \in {compact_item_no(last.arg), format_item_no(last.arg)} :
            \A o \in AgainAs(other) : Requests(o.ctx.log) = <<>> /\ ~Raised(o)

----------------------------------------------------------------------------
(* C14 *)

\* a decimal digit, of whatever script
IsDigit(c) == c \in AsciiDigits \cup OtherDigits

DigitsOf(s) == SelectSeq(s, IsDigit)

\* eight digits d, with a dot after the third if a and a dot after the sixth if b
WithDots(d, a, b) ==
    SubSeq(d, 1, 3) \o (IF a THEN <<".">> ELSE <<>>)
    \o SubSeq(d, 4, 6) \o (IF b THEN <<".">> ELSE <<>>) \o SubSeq(d, 7, 8)

\* the string is eight digits, with or without a dot after the third and after the
\* sixth, and nothing else
EightDigitsGrouped(s) ==
    /\ Len(DigitsOf(s)) = 8
    /\ \E a, b \in BOOLEAN : s = WithDots(DigitsOf(s), a, b)

\* C14: is_item_no returns true exactly for the strings of eight digits with an optional
\* dot after the third and after the sixth digit, and false for every other string.
C14_ExactlyEightDigitsGrouped ==
    last.op = "is_item_no" => (last.ret.bool <=> EightDigitsGrouped(last.arg))

----------------------------------------------------------------------------
(* C15 *)

\* format_item_no was applied to a valid item identifier
FormattedValid == last.op = "format_item_no" /\ EightDigitsGrouped(last.arg)

\* C15: for a valid item identifier x, format_item_no(compact_item_no(x)) equals
\* format_item_no(x), which is the eight digits of x grouped 3.3.2 with dots, is
\* itself accepted by is_item_no, and has the same compact form as x.
C15_FormatRoundTrip ==
    FormattedValid =>
        /\ format_item_no(compact_item_no(last.arg)) = last.ret.text
        /\ last.ret.text = WithDots(DigitsOf(last.arg), TRUE, TRUE)
        /\ is_item_no(last.ret.text)
        /\ compact_item_no(last.ret.text) = compact_item_no(last.arg)

\* every character of the string is an ASCII character
OnlyAscii(s) == \A k \in 1..Len(s) : s[k] \notin OtherDigits

\* C15 for identifiers written with the digits 0-9: the round trip above holds.
C15_AsciiFormatRoundTrip ==
    (FormattedValid /\ OnlyAscii(last.arg)) =>
        /\ format_item_no(compact_item_no(last.arg)) = last.ret.text
        /\ last.ret.text = WithDots(DigitsOf(last.arg), TRUE, TRUE)
        /\ is_item_no(last.ret.text)
        /\ compact_item_no(last.ret.text) = compact_item_no(last.arg)

\* "12345678" gives "123.456.78"
C15_AsciiWitness ==
    /\ last.op = "format_item_no"
    /\ last.arg = <<"1", "2", "3", "4", "5", "6", "7", "8">>
    /\ last.ret.text = <<"1", "2", "3", ".", "4", "5", "6", ".", "7", "8">>

----------------------------------------------------------------------------
(* C16 *)

\* the file a cache operation returns from
OwnFile ==
    CASE last.op = "get_pip" -> "pip.json"
      [] last.op = "get_exists" -> "exists.json"
      [] last.op = "get_thumbnail" -> "thumbnail.jpg"
      [] OTHER -> "model.glb"

\* C16: when a call of get_pip, get_exists, get_model or get_thumbnail ends in an
\* error, the operation's own cache file of that item is absent afterwards.
C16_FailedCallCachesNothing ==
    (last.op \in CacheOps /\ Raised(last)) => cache[last.arg][OwnFile] = Absent

----------------------------------------------------------------------------
(* C17 *)

\* C17: in every state reached from the empty cache, an item that has a cached
\* model.glb has a cached exists.json whose `exists` is true.
C17_ModelOnlyWhereExists ==
    \A i \in ItemNos : cache[i]["model.glb"] # Absent => ExistsIs(i, TRUE)

\* one item has its model cached, the other is known to have none
C17_Witness ==
    \E i, j \in ItemNos :
        /\ cache[i]["model.glb"] # Absent
        /\ ExistsIs(j, FALSE) /\ cache[j]["model.glb"] = Absent
        /\ last.op = "get_model" /\ last.arg = j

----------------------------------------------------------------------------
(* C18 *)

\* the item numbers of the field-complete candidates of the page a search call was
\* served, if it was served one
CompleteItemsOf(call) ==
    LET rs == Requests(call.log)
    IN IF rs = <<>> THEN {}
       ELSE LET page == rs[1].read
            IN IF page.fmt # "raw" \/ "searchResultPage" \notin DOMAIN page.val THEN {}
               ELSE LET items == page.val.searchResultPage.products.main.items
                    IN {items[n].product.itemNo : n \in {m \in 1..Len(items) : Complete(items[m])}}

\* the cache entries a call may create
MayCreate(call, i, f) ==
    CASE call.op = "get_pip" -> i = call.arg /\ f = "pip.json"
      [] call.op = "get_thumbnail" -> i = call.arg /\ f = "thumbnail.jpg"
      [] call.op = "get_exists" -> i = call.arg /\ f = "exists.json"
      [] call.op = "get_model" -> i = call.arg /\ f \in {"model.glb", "exists.json"}
      [] call.op = "search" -> i \in CompleteItemsOf(call) /\ f = "exists.json"
      [] OTHER -> FALSE

\* C18: a call changes no cache entry but its own: get_pip(item) can create only
\* item/pip.json, get_thumbnail only item/thumbnail.jpg, get_exists only
\* item/exists.json, get_model only item/model.glb and item/exists.json, search only
\* exists.json of field-complete candidates of its page; every other entry is after the
\* call what it was before, whether the call returns or raises.
C18_OnlyOwnEntries ==
    [][\A i \in ItemNos, f \in Files :
           cache'[i][f] # cache[i][f] => (cache[i][f] = Absent /\ MayCreate(last', i, f))]_vars

\* a search that stored the existence flag of its first candidate and then aborted,
\* while entries of other kinds were in the cache
C18_Witness ==
    /\ last.op = "search" /\ Raised(last)
    /\ Len(Writes(last.log)) = 1
    /\ \E i \in ItemNos : cache[i]["pip.json"] # Absent

====
